---- MODULE Spec2Model ----
(***************************************************************************)
(* A model of the orbital-mechanics kernel of spyce: CelestialBody          *)
(* (src/spyce/body.py) and OrbitAngles (src/spyce/orbit_angles.py), and of  *)
(* the event handlers and main loops of its windows (src/gui.py,            *)
(* src/spyce/gui/scene.py, src/spyce/gui/mission.py, src/simulation.py).    *)
(*                                                                          *)
(* Numbers.  A Python float is modelled by an exact value: a record         *)
(* [f, n, d].  f = "q" is the rational n/d in lowest terms with d > 0;      *)
(* f = "inf" is math.inf with sign n; f = "nan" is math.nan; f = "None" is  *)
(* Python's None; f = "unset" is an attribute __init__ never assigned.      *)
(* f = "acos" (and the other function names) is that function applied to   *)
(* the rational n/d: the transcendental functions are kept as terms, which  *)
(* is exact because each is injective on the arguments it is given.         *)
(* The inputs are chosen so that every float operation of the code is       *)
(* exact on them (small integers and binary fractions); where one is not    *)
(* (the eccentricity 0.3, floats above 2**53) the section that uses it says *)
(* how the rounding is accounted for.                                       *)
(*                                                                          *)
(* A Python str is a record [f |-> "str", chars], chars being the sequence *)
(* of its one-character strings.                                           *)
(***************************************************************************)
EXTENDS Integers, Sequences, FiniteSets, TLC

VARIABLES
    bodies,   \* the CelestialBody objects, in construction order
    ret,      \* the outcome of the last call: what it returned or raised
    orb,      \* the OrbitAngles object under study
    gui       \* the window object (GUI, Scene, MissionGUI or SimulationGUI)

vars == <<bodies, ret, orb, gui>>

---------------------------------------------------------------------------
(* Exact arithmetic *)

Abs(x) == IF x < 0 THEN -x ELSE x

Sgn(x) == IF x < 0 THEN -1 ELSE IF x > 0 THEN 1 ELSE 0

RECURSIVE Gcd(_, _)
Gcd(a, b) == IF b = 0 THEN a ELSE Gcd(b, a % b)

\* floor(a / b) for b # 0, as Python's // rounds (towards minus infinity)
FloorDiv(a, b) == IF b > 0 THEN a \div b ELSE (-a) \div (-b)

Q(n, d) ==
    LET g == Gcd(Abs(n), Abs(d))
        s == IF d < 0 THEN -1 ELSE 1
    IN  [f |-> "q", n |-> (s * n) \div g, d |-> (s * d) \div g]

QI(n) == [f |-> "q", n |-> n, d |-> 1]

Inf == [f |-> "inf", n |-> 1, d |-> 0]
NaN == [f |-> "nan", n |-> 0, d |-> 0]
None == [f |-> "None", n |-> 0, d |-> 0]
Unset == [f |-> "unset", n |-> 0, d |-> 0]

IsQ(x) == x.f = "q"
IsZero(x) == x.f = "q" /\ x.n = 0

QAdd(x, y) == Q(x.n * y.d + y.n * x.d, x.d * y.d)
QSub(x, y) == Q(x.n * y.d - y.n * x.d, x.d * y.d)
QMul(x, y) == Q(x.n * y.n, x.d * y.d)
QNeg(x) == [x EXCEPT !.n = -x.n]
\* x / y for a rational y # 0
QDiv(x, y) == Q(x.n * y.d, x.d * y.n)
QLt(x, y) == x.n * y.d < y.n * x.d
QFloor(x) == FloorDiv(x.n, x.d)

\* a < b on floats: rationals and infinities; any comparison with nan is false
Lt(x, y) ==
    CASE x.f = "nan" \/ y.f = "nan" -> FALSE
      [] x.f = "inf" /\ y.f = "inf" -> x.n < y.n
      [] x.f = "inf" -> x.n < 0
      [] y.f = "inf" -> y.n > 0
      [] OTHER -> QLt(x, y)

\* the term fn(x) of a transcendental function on a rational x
Term(fn, x) == [f |-> fn, n |-> x.n, d |-> x.d]

---------------------------------------------------------------------------
(* Angles of the tilt computation are whole multiples of pi/2 (quadrants), *)
(* on which cos and sin are exact.                                          *)

CosQ(k) == CASE k % 4 = 0 -> 1 [] k % 4 = 2 -> -1 [] OTHER -> 0
SinQ(k) == CASE k % 4 = 1 -> 1 [] k % 4 = 3 -> -1 [] OTHER -> 0
\* math.acos on -1, 0, 1, in quadrants
AcosQ(c) == CASE c = 1 -> 0 [] c = 0 -> 1 [] OTHER -> 2

\* x ** 0.4 for a rational x >= 0 whose numerator and denominator are fifth
\* powers: the square of the fifth root
Root5(n) == CHOOSE r \in 0..n : r * r * r * r * r = n
Pow04(x) == Q(Root5(x.n) * Root5(x.n), Root5(x.d) * Root5(x.d))

\* math.pi * x, kept exact
PiTimes(x) == IF x.n = 0 THEN QI(0) ELSE Term("pi*", x)

\* spyce.physics.G in the model's units
G == Q(2, 3)

---------------------------------------------------------------------------
(* The Orbit collaborator: a record of the fields CelestialBody reads.     *)

Orbit(primary, period, semi_major_axis, inclination, node) ==
    [f |-> "Orbit", primary |-> primary, period |-> period,
     semi_major_axis |-> semi_major_axis, inclination |-> inclination,
     longitude_of_ascending_node |-> node]

NorthPole(lat, lon) ==
    [f |-> "NorthPole", ecliptic_latitude |-> lat, ecliptic_longitude |-> lon]

Vec3(x, y, z) == <<x, y, z>>
VecAdd(u, v) == <<QAdd(u[1], v[1]), QAdd(u[2], v[2]), QAdd(u[3], v[3])>>

\* Orbit.position_at_time: a circular orbit in the reference plane, sampled
\* at the start of the current quarter of its period
position_at_time(o, t) ==
    LET k == QFloor(QDiv(QMul(QI(4), t), o.period))
    IN  Vec3(QMul(o.semi_major_axis, QI(CosQ(k))),
             QMul(o.semi_major_axis, QI(SinQ(k))), QI(0))

---------------------------------------------------------------------------
(* CelestialBody.__init__ *)

\* the attributes set before the satellites list is touched
NewObject(a) ==
    [name |-> a.name,
     radius |-> a.radius,
     gravitational_parameter |-> a.gravitational_parameter,
     north_pole |-> a.north_pole,
     orbit |-> a.orbit,
     mass |-> QDiv(a.gravitational_parameter, G),
     satellites |-> <<>>,
     rotational_period |-> Unset,
     tilt |-> Unset,
     sphere_of_influence |-> Unset,
     solar_day |-> Unset,
     surface_velocity |-> Unset,
     raised |-> ""]

\* Register, inserting at the head of the list instead of appending
RegisterAtHead(bs, self) ==
    IF bs[self].orbit # None
    THEN [bs EXCEPT ![bs[self].orbit.primary].satellites = <<self>> \o @]
    ELSE bs

\* self.orbit.primary.satellites.append(self), for the new object bs[self]
Register(bs, self) ==
    IF bs[self].orbit # None
    THEN [bs EXCEPT ![bs[self].orbit.primary].satellites = Append(@, self)]
    ELSE bs

\* RotationalPeriod without the tidal lock default
RotationalPeriodAsGiven(a) == a.rotational_period

RotationalPeriod(a) ==
    IF IsZero(a.rotational_period) /\ a.orbit # None
    THEN a.orbit.period
    ELSE a.rotational_period

\* the exception the tilt computation raises, "" if none
TiltRaises(a) ==
    IF a.north_pole # None /\ a.orbit = None THEN "AttributeError" ELSE ""

Tilt(a) ==
    IF a.north_pole = None
    THEN QI(0)
    ELSE LET b == a.orbit.inclination
             c0 == a.north_pole.ecliptic_latitude - 1
             c == IF Lt(a.rotational_period, QI(0)) THEN c0 + 2 ELSE c0
             A == a.orbit.longitude_of_ascending_node + 1
                    - a.north_pole.ecliptic_longitude
             ca == CosQ(b) * CosQ(c) + SinQ(b) * SinQ(c) * CosQ(A)
         IN  PiTimes(Q(AcosQ(ca), 2))

\* the exception the sphere of influence computation raises, "" if none
SoiRaises(bs, a) ==
    IF a.orbit # None /\ IsZero(bs[a.orbit.primary].gravitational_parameter)
    THEN "ZeroDivisionError"
    ELSE ""

\* SphereOfInfluence without the exponent 0.4
SphereOfInfluenceLinear(bs, a) ==
    IF a.orbit = None
    THEN Inf
    ELSE QMul(a.orbit.semi_major_axis,
              QDiv(a.gravitational_parameter,
                   bs[a.orbit.primary].gravitational_parameter))

SphereOfInfluence(bs, a) ==
    IF a.orbit = None
    THEN Inf
    ELSE LET sma == a.orbit.semi_major_axis
             mu_p == bs[a.orbit.primary].gravitational_parameter
             mu_b == a.gravitational_parameter
         IN  QMul(sma, Pow04(QDiv(mu_b, mu_p)))

\* SolarDay taking the sidereal day for the solar day
SolarDaySidereal(orbit, rotational_period) ==
    IF orbit # None THEN rotational_period ELSE QI(0)

SolarDay(orbit, rotational_period) ==
    IF orbit # None
    THEN LET sidereal_day == rotational_period
             sidereal_year == orbit.period
             solar_year == QSub(sidereal_year, sidereal_day)
         IN  IF IsZero(solar_year)
             THEN Inf
             ELSE QDiv(QMul(sidereal_day, sidereal_year), solar_year)
    ELSE QI(0)

SurfaceVelocity(radius, rotational_period) ==
    IF IsZero(rotational_period)
    THEN Inf
    ELSE PiTimes(QDiv(QMul(QI(2), radius), rotational_period))

\* CelestialBody registering the new object last, once its quantities are
\* derived: a construction that raises has not registered it
CelestialBodyRegisterLast(bs, a) ==
    LET self == Len(bs) + 1
        s1 == Append(bs, NewObject(a))
        s2 == [s1 EXCEPT ![self].rotational_period = RotationalPeriod(a)]
        rot == s2[self].rotational_period
    IN  IF TiltRaises(a) # ""
        THEN [s2 EXCEPT ![self].raised = TiltRaises(a)]
        ELSE LET s3 == [s2 EXCEPT ![self].tilt = Tilt(a)]
             IN  IF SoiRaises(s3, a) # ""
                 THEN [s3 EXCEPT ![self].raised = SoiRaises(s3, a)]
                 ELSE Register([s3 EXCEPT
                         ![self].sphere_of_influence = SphereOfInfluence(s3, a),
                         ![self].solar_day = SolarDay(a.orbit, rot),
                         ![self].surface_velocity =
                             SurfaceVelocity(a.radius, rot)], self)

\* The heap after CelestialBody(**a) ran on the heap bs: the new object is
\* bs'[Len(bs) + 1]; when __init__ raised, the object keeps the attributes
\* assigned so far and its field raised names the exception.
CelestialBody(bs, a) ==
    LET self == Len(bs) + 1
        s1 == Register(Append(bs, NewObject(a)), self)
        s2 == [s1 EXCEPT ![self].rotational_period = RotationalPeriod(a)]
        rot == s2[self].rotational_period
    IN  IF TiltRaises(a) # ""
        THEN [s2 EXCEPT ![self].raised = TiltRaises(a)]
        ELSE LET s3 == [s2 EXCEPT ![self].tilt = Tilt(a)]
             IN  IF SoiRaises(s3, a) # ""
                 THEN [s3 EXCEPT ![self].raised = SoiRaises(s3, a)]
                 ELSE [s3 EXCEPT
                         ![self].sphere_of_influence = SphereOfInfluence(s3, a),
                         ![self].solar_day = SolarDay(a.orbit, rot),
                         ![self].surface_velocity =
                             SurfaceVelocity(a.radius, rot)]

---------------------------------------------------------------------------
(* What a call does: it returns a value or raises an exception.            *)

\* a Python str: the sequence of its characters
Str(chars) == [f |-> "str", chars |-> chars]

Return(v) == [raised |-> "", val |-> v]
Raise(e) == [raised |-> e, val |-> None]

---------------------------------------------------------------------------
(* CelestialBody.global_position_at_time *)

\* The recursion up the tree. val is the vector returned; calls lists the
\* bodies the method was invoked on, innermost call last.
RECURSIVE global_position_at_time(_, _, _)

\* global_position_at_time taking the primary's position in its own orbit
\* for its global position
global_position_one_level(bs, b, time) ==
    IF bs[b].orbit = None
    THEN [val |-> Vec3(QI(0), QI(0), QI(0)), calls |-> <<b>>]
    ELSE LET p == bs[b].orbit.primary
             up == IF bs[p].orbit = None
                   THEN Vec3(QI(0), QI(0), QI(0))
                   ELSE position_at_time(bs[p].orbit, time)
         IN  [val |-> VecAdd(up, position_at_time(bs[b].orbit, time)),
              calls |-> <<b, p>>]

global_position_at_time(bs, b, time) ==
    IF bs[b].orbit = None
    THEN [val |-> Vec3(QI(0), QI(0), QI(0)), calls |-> <<b>>]
    ELSE LET up == global_position_at_time(bs, bs[b].orbit.primary, time)
         IN  [val |-> VecAdd(up.val, position_at_time(bs[b].orbit, time)),
              calls |-> <<b>> \o up.calls]

---------------------------------------------------------------------------
(* CelestialBody.gravity; distance = None is the call without argument *)

\* gravity without the shell theorem inside the body
gravity_inverse_square(self, distance) ==
    LET dist == IF distance = None THEN self.radius ELSE distance
    IN  IF IsZero(dist)
        THEN Return(QI(0))
        ELSE Return(QDiv(self.gravitational_parameter, QMul(dist, dist)))

gravity(self, distance) ==
    LET dist == IF distance = None THEN self.radius ELSE distance
        mu == self.gravitational_parameter
        cube(x) == QMul(x, QMul(x, x))
    IN  IF IsZero(dist)
        THEN Return(QI(0))
        ELSE IF Lt(dist, self.radius)
             THEN IF IsZero(self.radius)
                  THEN Raise("ZeroDivisionError")
                  ELSE Return(QDiv(QMul(mu, QDiv(cube(dist), cube(self.radius))),
                                   QMul(dist, dist)))
             ELSE Return(QDiv(mu, QMul(dist, dist)))

---------------------------------------------------------------------------
(* escape_velocity_at_distance, angular_diameter, constellation_* *)

escape_velocity_at_distance(self, distance) ==
    IF IsZero(distance)
    THEN Raise("ZeroDivisionError")
    ELSE LET x == QDiv(QMul(QI(2), self.gravitational_parameter), distance)
         IN  IF x.n < 0 THEN Raise("ValueError") ELSE Return(Term("sqrt", x))

angular_diameter(self, distance) ==
    IF IsZero(distance)
    THEN Raise("ZeroDivisionError")
    ELSE LET x == QDiv(self.radius, distance)
         IN  IF Abs(x.n) > x.d
             THEN Raise("ValueError")
             ELSE Return(Term("2*asin", x))

constellation_minimum_size(self, communication_range) ==
    IF IsZero(self.radius) \/ IsZero(communication_range)
    THEN Raise("ZeroDivisionError")
    ELSE Return(Term("ceil(pi/atan)",
                     QDiv(QDiv(communication_range, self.radius), QI(2))))

\* q * sqrt(k), kept exact
Surd(q, k) ==
    IF k = 1 \/ q.n = 0 THEN q ELSE [f |-> "q*sqrt", n |-> q.n, d |-> q.d, k |-> k]

\* math.cos(math.pi/size) and math.sin(math.pi/size) as q * sqrt(k), for the
\* sizes on which they have that form
CosPiOver(size) ==
    CASE size = QI(3) -> [q |-> Q(1, 2), k |-> 1]
      [] size = QI(4) -> [q |-> Q(1, 2), k |-> 2]
      [] size = QI(6) -> [q |-> Q(1, 2), k |-> 3]

SinPiOver(size) ==
    CASE size = QI(3) -> [q |-> Q(1, 2), k |-> 3]
      [] size = QI(4) -> [q |-> Q(1, 2), k |-> 2]
      [] size = QI(6) -> [q |-> Q(1, 2), k |-> 1]

\* x / (q * sqrt(k)) = x / (q * k) * sqrt(k)
DivSurd(x, s) == [q |-> QDiv(x, QMul(s.q, QI(s.k))), k |-> s.k]

\* constellation_radius refusing three satellites too
constellation_radius_above_three(self, communication_range, size) ==
    IF ~Lt(QI(3), size)
    THEN Raise("InvalidConstellation")
    ELSE LET lo == DivSurd(self.radius, CosPiOver(size))
             hi == DivSurd(communication_range, SinPiOver(size))
         IN  Return([min |-> Surd(lo.q, lo.k),
                     max |-> Surd(QDiv(hi.q, QI(2)), hi.k)])

constellation_radius(self, communication_range, size) ==
    IF Lt(size, QI(3))
    THEN Raise("InvalidConstellation")
    ELSE LET lo == DivSurd(self.radius, CosPiOver(size))
             hi == DivSurd(communication_range, SinPiOver(size))
         IN  Return([min |-> Surd(lo.q, lo.k),
                     max |-> Surd(QDiv(hi.q, QI(2)), hi.k)])

---------------------------------------------------------------------------
(* Formatting, as Python's % operator does it *)

Digit(k) == <<"0", "1", "2", "3", "4", "5", "6", "7", "8", "9">>[k + 1]

RECURSIVE Dec(_)
Dec(n) == IF n < 10 THEN <<Digit(n)>> ELSE Dec(n \div 10) \o <<Digit(n % 10)>>

RECURSIVE Fill(_, _)
Fill(c, k) == IF k <= 0 THEN <<>> ELSE <<c>> \o Fill(c, k - 1)

RECURSIVE Pow10(_)
Pow10(k) == IF k = 0 THEN 1 ELSE 10 * Pow10(k - 1)

\* the integer nearest to the rational x >= 0, ties to even
RoundHalfEven(x) ==
    LET fl == QFloor(x)
        twice == 2 * (x.n - fl * x.d)   \* twice the fraction, times x.d
    IN  IF twice < x.d THEN fl
        ELSE IF twice > x.d THEN fl + 1
        ELSE IF fl % 2 = 0 THEN fl ELSE fl + 1

\* "%<width>u" and "%0<width>u" of an integer-valued float
FormatU(n, width, zero) ==
    LET sign == IF n < 0 THEN <<"-">> ELSE <<>>
        digits == Dec(Abs(n))
        pad == width - Len(sign) - Len(digits)
    IN  IF zero
        THEN sign \o Fill("0", pad) \o digits
        ELSE Fill(" ", pad) \o sign \o digits

\* "%04.1f" of a rational x >= 0
FormatF(x) ==
    LET tenths == RoundHalfEven(QMul(x, QI(10)))
        text == Dec(tenths \div 10) \o <<".", Digit(tenths % 10)>>
    IN  Fill("0", 4 - Len(text)) \o text

RECURSIVE StripZeros(_)
StripZeros(s) ==
    IF Len(s) > 0 /\ s[Len(s)] = "0" THEN StripZeros(SubSeq(s, 1, Len(s) - 1)) ELSE s

\* "%.5g" of an integer-valued float n >= 0: plain below 100000, else
\* scientific with five significant digits and trailing zeros removed
FormatG(n) ==
    IF n < 100000
    THEN Dec(n)
    ELSE LET e0 == Len(Dec(n)) - 1
             m0 == RoundHalfEven(Q(n, Pow10(e0 - 4)))
             e == IF m0 = 100000 THEN e0 + 1 ELSE e0
             m == IF m0 = 100000 THEN 10000 ELSE m0
             frac == StripZeros(Dec((m % 10000) + 10000))
             mant == <<Digit(m \div 10000)>> \o
                     (IF Len(frac) > 1
                      THEN <<".">> \o SubSeq(frac, 2, Len(frac)) ELSE <<>>)
         IN  mant \o <<"e", "+">> \o FormatU(e, 2, TRUE)

\* divmod(x, y) on floats, y # 0: the floor of the quotient and the rest
DivMod(x, y) ==
    LET q == QFloor(QDiv(x, y))
    IN  [q |-> q, r |-> QSub(x, QMul(QI(q), y))]

---------------------------------------------------------------------------
(* CelestialBody.time2str *)

time2str(self, seconds) ==
    IF self.orbit = None
    THEN Raise("AttributeError")
    ELSE IF IsZero(self.orbit.period) \/ IsZero(self.rotational_period)
    THEN Raise("ZeroDivisionError")
    ELSE
      LET sign == IF Lt(seconds, QI(0)) THEN "-" ELSE "+"
          s0 == IF seconds.n < 0 THEN QNeg(seconds) ELSE seconds
          y == DivMod(s0, self.orbit.period)
          d == DivMod(y.r, self.rotational_period)
          h == DivMod(d.r, QI(3600))
          m == DivMod(h.r, QI(60))
      IN  Return(Str(<<sign>> \o FormatG(y.q) \o <<"y", ",">>
                     \o FormatU(d.q, 4, FALSE) \o <<"d", ",">>
                     \o FormatU(h.q, 3, FALSE) \o <<":">>
                     \o FormatU(m.q, 2, TRUE) \o <<":">>
                     \o FormatF(m.r)))

---------------------------------------------------------------------------
(* CelestialBody.str2time: the regular expression, matched from the start  *)
(* of the string.  Every group is optional and greedy, so the match takes  *)
(* each group that fits where the previous one ended and skips the others. *)

IsDigit(c) == c \in {"0", "1", "2", "3", "4", "5", "6", "7", "8", "9"}
DigitVal(c) == CHOOSE k \in 0..9 : Digit(k) = c

\* the index after the run of digits that starts at i (i itself if none)
RECURSIVE DigitsEnd(_, _)
DigitsEnd(s, i) ==
    IF i <= Len(s) /\ IsDigit(s[i]) THEN DigitsEnd(s, i + 1) ELSE i

\* the index after the run of [\s,] that starts at i
RECURSIVE SepEnd(_, _)
SepEnd(s, i) ==
    IF i <= Len(s) /\ s[i] \in {" ", ","} THEN SepEnd(s, i + 1) ELSE i

\* int of the digits s[i..j-1]
RECURSIVE Nat10(_, _, _)
Nat10(s, i, j) ==
    IF j <= i THEN 0 ELSE 10 * Nat10(s, i, j - 1) + DigitVal(s[j - 1])

At(s, i, c) == i <= Len(s) /\ s[i] = c

\* (?:(\d+)<unit>[\s,]*)? at i: the group (None if absent) and where the
\* match continues
UnitGroup(s, i, unit) ==
    LET j == DigitsEnd(s, i)
    IN  IF j > i /\ At(s, j, unit)
        THEN [val |-> QI(Nat10(s, i, j)), next |-> SepEnd(s, j + 1)]
        ELSE [val |-> None, next |-> i]

\* (?:(\d+):(\d+)(?::(\d+(?:\.\d+)?))?)? at i: hours, minutes, seconds
ClockGroup(s, i) ==
    LET j == DigitsEnd(s, i)
        k == DigitsEnd(s, j + 1)
        l == DigitsEnd(s, k + 1)
        f == DigitsEnd(s, l + 1)
        hasClock == j > i /\ At(s, j, ":") /\ k > j + 1
        hasSec == hasClock /\ At(s, k, ":") /\ l > k + 1
        hasFrac == hasSec /\ At(s, l, ".") /\ f > l + 1
    IN  [h |-> IF hasClock THEN QI(Nat10(s, i, j)) ELSE None,
         m |-> IF hasClock THEN QI(Nat10(s, j + 1, k)) ELSE None,
         s |-> IF hasFrac
               THEN QAdd(QI(Nat10(s, k + 1, l)),
                         Q(Nat10(s, l + 1, f), Pow10(f - l - 1)))
               ELSE IF hasSec THEN QI(Nat10(s, k + 1, l)) ELSE None]

\* float(group) if group else 0
Field(g) == IF g = None THEN QI(0) ELSE g

\* str2time reading orbit.period only when the string has a years field
str2time_years_on_demand(self, formatted_time) ==
    LET s == formatted_time.chars
        hasSign == Len(s) > 0 /\ s[1] \in {"-", "+"}
        sign == IF hasSign THEN s[1] ELSE ""
        yg == UnitGroup(s, IF hasSign THEN 2 ELSE 1, "y")
        dg == UnitGroup(s, yg.next, "d")
        cg == ClockGroup(s, dg.next)
    IN  IF self.orbit = None /\ yg.val # None
        THEN Raise("AttributeError")
        ELSE LET s1 == IF yg.val = None
                       THEN Field(cg.s)
                       ELSE QAdd(Field(cg.s), QMul(yg.val, self.orbit.period))
                 s2 == QAdd(s1, QMul(Field(dg.val), self.rotational_period))
                 s3 == QAdd(s2, QMul(Field(cg.h), QI(3600)))
                 s4 == QAdd(s3, QMul(Field(cg.m), QI(60)))
             IN  Return(IF sign = "-" THEN QNeg(s4) ELSE s4)

str2time(self, formatted_time) ==
    LET s == formatted_time.chars
        hasSign == Len(s) > 0 /\ s[1] \in {"-", "+"}
        sign == IF hasSign THEN s[1] ELSE ""
        yg == UnitGroup(s, IF hasSign THEN 2 ELSE 1, "y")
        dg == UnitGroup(s, yg.next, "d")
        cg == ClockGroup(s, dg.next)
    IN  IF self.orbit = None
        THEN Raise("AttributeError")
        ELSE LET s1 == QAdd(Field(cg.s), QMul(Field(yg.val), self.orbit.period))
                 s2 == QAdd(s1, QMul(Field(dg.val), self.rotational_period))
                 s3 == QAdd(s2, QMul(Field(cg.h), QI(3600)))
                 s4 == QAdd(s3, QMul(Field(cg.m), QI(60)))
             IN  Return(IF sign = "-" THEN QNeg(s4) ELSE s4)

---------------------------------------------------------------------------
(* SimulationGUI.draw_hud, drawn on every frame: the line of the HUD that  *)
(* shows the time asks the rocket's primary to format it.                   *)

draw_hud(bs, primary, time) ==
    LET line == time2str(bs[primary], time)
    IN  IF line.raised # "" THEN Raise(line.raised) ELSE Return(None)

---------------------------------------------------------------------------
(* OrbitAngles *)

\* x / y on floats for a rational x and a non-zero y that may be infinite
Div(x, y) == IF y.f = "inf" THEN QI(0) ELSE QDiv(x, y)

\* The fields of an orbit of eccentricity e and periapsis q, as the Orbit
\* collaborator supplies them: r = p / (1 + e cos v), closest at v = 0 and,
\* for a closed orbit, farthest at v = pi; an open orbit has an apoapsis
\* that is infinite (e = 1) or negative (e > 1).
OrbitAngles(e, q, primary) ==
    [eccentricity |-> e,
     periapsis |-> q,
     semi_latus_rectum |-> QMul(q, QAdd(QI(1), e)),
     apoapsis |-> IF e = QI(1) THEN Inf
                  ELSE QDiv(QMul(q, QAdd(QI(1), e)), QSub(QI(1), e)),
     primary |-> primary]

\* true_anomaly_at_distance whose apoapsis check forgets the open orbits
true_anomaly_at_distance_closed_only(self, distance) ==
    IF IsZero(self.eccentricity)
    THEN Return(NaN)
    ELSE IF Lt(distance, self.periapsis)
    THEN Return(NaN)
    ELSE IF Lt(self.apoapsis, distance)
    THEN Return(NaN)
    ELSE Return(Term("acos",
             QDiv(QSub(Div(self.semi_latus_rectum, distance), QI(1)),
                  self.eccentricity)))

true_anomaly_at_distance(self, distance) ==
    IF IsZero(self.eccentricity)
    THEN Return(NaN)
    ELSE IF Lt(distance, self.periapsis)
    THEN Return(NaN)
    ELSE IF Lt(QI(0), self.apoapsis) /\ Lt(self.apoapsis, distance)
    THEN Return(NaN)
    ELSE IF IsZero(distance)
    THEN Raise("ZeroDivisionError")
    ELSE LET x == QDiv(QSub(Div(self.semi_latus_rectum, distance), QI(1)),
                       self.eccentricity)
         IN  IF Abs(x.n) > x.d
             THEN Raise("ValueError")
             ELSE Return(Term("acos", x))

\* ejection_angle taking the parabola for a closed orbit
ejection_angle_hyperbolic_only(self) ==
    IF ~Lt(QI(1), self.eccentricity)
    THEN Return(Inf)
    ELSE Return(Term("acos", QDiv(QI(-1), self.eccentricity)))

\* OrbitGeometry.ejection_angle; math.acos raises outside [-1, 1]
ejection_angle(self) ==
    IF Lt(self.eccentricity, QI(1))
    THEN Return(Inf)
    ELSE IF IsZero(self.eccentricity)
    THEN Raise("ZeroDivisionError")
    ELSE LET x == QDiv(QI(-1), self.eccentricity)
         IN  IF Abs(x.n) > x.d
             THEN Raise("ValueError")
             ELSE Return(Term("acos", x))

\* true_anomaly_at_escape asking for the apoapsis distance
true_anomaly_at_escape_at_apoapsis(bs, self) ==
    true_anomaly_at_distance(self, self.apoapsis)

true_anomaly_at_escape(bs, self) ==
    true_anomaly_at_distance(self, bs[self.primary].sphere_of_influence)

---------------------------------------------------------------------------
(* OrbitAngles: time and mean anomaly.  Angles and angular rates are whole *)
(* or fractional multiples of pi, PiTimes(c); times are rationals.          *)

\* the c of an angle c * pi
Coef(x) == IF x.f = "pi*" THEN Q(x.n, x.d) ELSE x

\* angle + angle, angle - angle, rate * time, angle / rate
AngAdd(x, y) == PiTimes(QAdd(Coef(x), Coef(y)))
AngSub(x, y) == PiTimes(QSub(Coef(x), Coef(y)))
AngScale(rate, t) == PiTimes(QMul(Coef(rate), t))
AngRatio(x, rate) == QDiv(Coef(x), Coef(rate))

\* the attributes of an orbit that the anomaly queries read
Kepler(e, epoch, mean_anomaly_at_epoch, mean_motion) ==
    [eccentricity |-> e,
     epoch |-> epoch,
     mean_anomaly_at_epoch |-> mean_anomaly_at_epoch,
     mean_motion |-> mean_motion]

time_at_mean_anomaly(self, mean_anomaly) ==
    IF IsZero(self.mean_motion)
    THEN Raise("ZeroDivisionError")
    ELSE Return(QAdd(self.epoch,
                     AngRatio(AngSub(mean_anomaly, self.mean_anomaly_at_epoch),
                              self.mean_motion)))

\* mean_anomaly_at_time reduced to [0, 2 pi)
mean_anomaly_at_time_wrapped(self, time) ==
    LET m == Coef(AngAdd(self.mean_anomaly_at_epoch,
                         AngScale(self.mean_motion, QSub(time, self.epoch))))
    IN  Return(PiTimes(Q(m.n % (2 * m.d), m.d)))

mean_anomaly_at_time(self, time) ==
    Return(AngAdd(self.mean_anomaly_at_epoch,
                  AngScale(self.mean_motion, QSub(time, self.epoch))))

---------------------------------------------------------------------------
(* OrbitGeometry: Kepler's equation.  The transcendental values are kept   *)
(* as terms: Solution(kind, e, m) is the real E with kind(E) = m, and      *)
(* Image(kind, e, x) is kind(x), for the three left-hand sides             *)
(*   "E - e*sin(E)", "(E**3 + E*3)/2" and "e*sinh(E) - E".                 *)

Solution(kind, e, m) ==
    IF IsZero(m) THEN QI(0) ELSE [f |-> "solution", kind |-> kind, e |-> e, m |-> m]

Image(kind, e, x) ==
    IF IsZero(x) THEN QI(0) ELSE [f |-> "image", kind |-> kind, e |-> e, x |-> x]

\* spyce.analysis.newton_raphson on f(E) = kind(E) - m: the root
newton_raphson(kind, e, m) == Solution(kind, e, m)

\* 2**-26
SmallAnomaly == Q(1, 67108864)

\* abs(M) < 2**-26, for M rational or a multiple of pi
IsSmall(M) ==
    /\ M.f = "q"
    /\ QLt(IF M.n < 0 THEN QNeg(M) ELSE M, SmallAnomaly)

\* M % (2*math.pi), in [0, 2 pi): for a multiple of pi, and for a rational
\* in [0, 6], which is its own remainder
Mod2Pi(M) ==
    IF M.f = "pi*"
    THEN PiTimes(Q(M.n % (2 * M.d), M.d))
    ELSE M

eccentric_anomaly_at_mean_anomaly(self, mean_anomaly) ==
    LET e == self.eccentricity
    IN  IF Lt(e, QI(1))
        THEN LET M == Mod2Pi(mean_anomaly)
             IN  IF IsSmall(M)
                 THEN Return(QDiv(M, QSub(QI(1), e)))
                 ELSE Return(newton_raphson("E - e*sin(E)", e, M))
        ELSE IF e = QI(1)
        THEN Return(Solution("(E**3 + E*3)/2", e, mean_anomaly))
        ELSE IF IsSmall(mean_anomaly)
             THEN Return(QDiv(mean_anomaly, QSub(e, QI(1))))
             ELSE Return(newton_raphson("e*sinh(E) - E", e, mean_anomaly))

\* kind(E): the m of a solution of the same equation; E itself where the
\* sine term vanishes (e = 0, or E a whole multiple of pi); the term otherwise
Apply(kind, e, E) ==
    IF E.f = "solution" /\ E.kind = kind /\ E.e = e
    THEN E.m
    ELSE IF kind = "E - e*sin(E)" /\ (IsZero(e) \/ (E.f = "pi*" /\ E.d = 1))
    THEN E
    ELSE Image(kind, e, E)

mean_anomaly_at_eccentric_anomaly(self, eccentric_anomaly) ==
    LET e == self.eccentricity
    IN  IF Lt(e, QI(1))
        THEN Return(Apply("E - e*sin(E)", e, eccentric_anomaly))
        ELSE IF e = QI(1)
        THEN Return(Apply("(E**3 + E*3)/2", e, eccentric_anomaly))
        ELSE Return(Apply("e*sinh(E) - E", e, eccentric_anomaly))

---------------------------------------------------------------------------
(* GUI and Scene: the camera and the mouse.  The two classes have the same *)
(* handlers.  zoom is kept as the wheel operations applied to 0.25, in     *)
(* order: "*" is zoom *= 1.2 and "/" is zoom /= 1.2.                        *)

GLUT_LEFT_BUTTON == 0
GLUT_RIGHT_BUTTON == 2
GLUT_DOWN == 0
GLUT_UP == 1

\* GUI.__init__ / Scene.__init__: the default settings
Window(class) ==
    [class |-> class,
     zoom |-> <<>>,
     drag_active |-> FALSE,
     mouse_x |-> 0,
     mouse_y |-> 0,
     theta |-> QI(0),
     phi |-> QI(-90),
     is_running |-> TRUE]

\* max(-180, min(phi, 0))
ClampPhi(phi) ==
    LET low == IF Lt(QI(0), phi) THEN QI(0) ELSE phi
    IN  IF Lt(low, QI(-180)) THEN QI(-180) ELSE low

\* motionFunc without the clamp of phi
motionFunc_unclamped(self, x, y) ==
    LET moved == IF self.drag_active
                 THEN [self EXCEPT
                         !.theta = QAdd(@, Q(x - self.mouse_x, 4)),
                         !.phi = QAdd(@, Q(y - self.mouse_y, 4))]
                 ELSE self
    IN  [moved EXCEPT !.mouse_x = x, !.mouse_y = y]

motionFunc(self, x, y) ==
    LET moved == IF self.drag_active
                 THEN [self EXCEPT
                         !.theta = QAdd(@, Q(x - self.mouse_x, 4)),
                         !.phi = ClampPhi(QAdd(@, Q(y - self.mouse_y, 4)))]
                 ELSE self
    IN  [moved EXCEPT !.mouse_x = x, !.mouse_y = y]

passiveMotionFunc(self, x, y) == motionFunc(self, x, y)

mouseFunc(self, button, state, x, y) ==
    LET s1 == IF button = GLUT_RIGHT_BUTTON
              THEN IF state = GLUT_DOWN
                   THEN [self EXCEPT !.drag_active = TRUE,
                                     !.mouse_x = x, !.mouse_y = y]
                   ELSE [self EXCEPT !.drag_active = FALSE]
              ELSE self
        s2 == IF button = 3 /\ state = GLUT_DOWN
              THEN [s1 EXCEPT !.zoom = Append(@, "*")]
              ELSE s1
    IN  IF button = 4 /\ state = GLUT_DOWN
        THEN [s2 EXCEPT !.zoom = Append(@, "/")]
        ELSE s2

---------------------------------------------------------------------------
(* MissionGUI.main: the loop that turns wall-clock time into simulation    *)
(* steps.  Its floats are binary fractions, on which the arithmetic is     *)
(* exact, and the products x * 1e18 with x >= 1/64, written Huge(x): such  *)
(* a float is above 2**53, its neighbours are at least 2 apart, and adding *)
(* or subtracting a float below 1 rounds back to it.                        *)

Huge(x) == [f |-> "1e18*", n |-> x.n, d |-> x.d]

\* a * b
FMul(a, b) ==
    IF b.f = "1e18*"
    THEN IF IsZero(a) THEN QI(0) ELSE Huge(QMul(a, Q(b.n, b.d)))
    ELSE QMul(a, b)

\* a + b
FAdd(a, b) ==
    CASE a.f = "1e18*" /\ b.f = "1e18*" -> Huge(QAdd(Q(a.n, a.d), Q(b.n, b.d)))
      [] a.f = "1e18*" /\ b.f = "q" -> a
      [] a.f = "q" /\ b.f = "1e18*" -> b
      [] OTHER -> QAdd(a, b)

\* a - b for a float b below 1
FSub(a, b) == IF a.f = "1e18*" THEN a ELSE QSub(a, b)

\* a < b
FLt(a, b) ==
    CASE a.f = "1e18*" /\ b.f = "1e18*" -> QLt(Q(a.n, a.d), Q(b.n, b.d))
      [] a.f = "1e18*" -> FALSE
      [] b.f = "1e18*" -> TRUE
      [] OTHER -> Lt(a, b)

\* dt = 2.**-5
MissionDt == Q(1, 32)

\* A MissionGUI whose main() has just initialised its locals: pc is the
\* position in main ("while": the test of the outer loop, "inner": the test
\* of the inner loop, "done": returned).  The rocket is its count of
\* simulate() calls, which stands for its position.
MissionGUI(timewarp) ==
    [class |-> "MissionGUI",
     is_running |-> TRUE,
     timewarp |-> timewarp,
     time |-> QI(0),
     path |-> <<>>,
     rocket |-> 0,
     pc |-> "while",
     accumulated_time |-> QI(0)]

\* Scene.keyboardFunc and Scene.closeFunc, the events that stop the loop;
\* "x1b" is the escape key, "" no event
glutMainLoopEvent(self, event) ==
    IF event \in {"x1b", "close"}
    THEN [self EXCEPT !.is_running = FALSE]
    ELSE self

---------------------------------------------------------------------------
(* The calls.  Each records its outcome in ret.                            *)

Call(op, self, args, outcome) ==
    [op |-> op, self |-> self, args |-> args,
     raised |-> outcome.raised, val |-> outcome.val]

NoCall == Call("", 0, <<>>, Return(None))

\* CelestialBody(**a).  When __init__ raises, the exception propagates and
\* the only reference left to the new object is the one in its primary's
\* satellites list: without an orbit the object is gone.
Construct(a) ==
    LET heap == CelestialBody(bodies, a)
        self == Len(heap)
    IN  /\ bodies' = IF heap[self].raised # "" /\ a.orbit = None
                     THEN bodies
                     ELSE heap
        /\ ret' = Call("CelestialBody", self, <<a>>,
                       IF heap[self].raised # ""
                       THEN Raise(heap[self].raised) ELSE Return(None))
        /\ UNCHANGED <<orb, gui>>

GlobalPositionAtTime(b, time) ==
    /\ ret' = Call("global_position_at_time", b, <<time>>,
                   Return(global_position_at_time(bodies, b, time)))
    /\ UNCHANGED <<bodies, orb, gui>>

\* Gravity keeping the scaled mu in the body instead of a local variable
GravityScalesBody(b, distance) ==
    /\ ret' = Call("gravity", b, <<distance>>, gravity(bodies[b], distance))
    /\ bodies' = IF Lt(distance, bodies[b].radius)
                 THEN [bodies EXCEPT ![b].gravitational_parameter =
                         QMul(@, QDiv(distance, bodies[b].radius))]
                 ELSE bodies
    /\ UNCHANGED <<orb, gui>>

Gravity(b, distance) ==
    /\ ret' = Call("gravity", b, <<distance>>, gravity(bodies[b], distance))
    /\ UNCHANGED <<bodies, orb, gui>>

Time2Str(b, seconds) ==
    /\ ret' = Call("time2str", b, <<seconds>>, time2str(bodies[b], seconds))
    /\ UNCHANGED <<bodies, orb, gui>>

Str2Time(b, formatted_time) ==
    /\ ret' = Call("str2time", b, <<formatted_time>>,
                   str2time(bodies[b], formatted_time))
    /\ UNCHANGED <<bodies, orb, gui>>

\* draw_hud of a simulation at the given time whose rocket orbits body b
DrawHud(b, time) ==
    /\ ret' = Call("draw_hud", b, <<time>>, draw_hud(bodies, b, time))
    /\ UNCHANGED <<bodies, orb, gui>>

EscapeVelocityAtDistance(b, distance) ==
    /\ ret' = Call("escape_velocity_at_distance", b, <<distance>>,
                   escape_velocity_at_distance(bodies[b], distance))
    /\ UNCHANGED <<bodies, orb, gui>>

AngularDiameter(b, distance) ==
    /\ ret' = Call("angular_diameter", b, <<distance>>,
                   angular_diameter(bodies[b], distance))
    /\ UNCHANGED <<bodies, orb, gui>>

ConstellationMinimumSize(b, communication_range) ==
    /\ ret' = Call("constellation_minimum_size", b, <<communication_range>>,
                   constellation_minimum_size(bodies[b], communication_range))
    /\ UNCHANGED <<bodies, orb, gui>>

ConstellationRadius(b, communication_range, size) ==
    /\ ret' = Call("constellation_radius", b, <<communication_range, size>>,
                   constellation_radius(bodies[b], communication_range, size))
    /\ UNCHANGED <<bodies, orb, gui>>

TrueAnomalyAtDistance(distance) ==
    /\ ret' = Call("true_anomaly_at_distance", 0, <<distance>>,
                   true_anomaly_at_distance(orb, distance))
    /\ UNCHANGED <<bodies, orb, gui>>

EjectionAngle ==
    /\ ret' = Call("ejection_angle", 0, <<>>, ejection_angle(orb))
    /\ UNCHANGED <<bodies, orb, gui>>

TrueAnomalyAtEscape ==
    /\ ret' = Call("true_anomaly_at_escape", 0, <<>>,
                   true_anomaly_at_escape(bodies, orb))
    /\ UNCHANGED <<bodies, orb, gui>>

TimeAtMeanAnomaly(mean_anomaly) ==
    /\ ret' = Call("time_at_mean_anomaly", 0, <<mean_anomaly>>,
                   time_at_mean_anomaly(orb, mean_anomaly))
    /\ UNCHANGED <<bodies, orb, gui>>

MeanAnomalyAtTime(time) ==
    /\ ret' = Call("mean_anomaly_at_time", 0, <<time>>,
                   mean_anomaly_at_time(orb, time))
    /\ UNCHANGED <<bodies, orb, gui>>

EccentricAnomalyAtMeanAnomaly(mean_anomaly) ==
    /\ ret' = Call("eccentric_anomaly_at_mean_anomaly", 0, <<mean_anomaly>>,
                   eccentric_anomaly_at_mean_anomaly(orb, mean_anomaly))
    /\ UNCHANGED <<bodies, orb, gui>>

MeanAnomalyAtEccentricAnomaly(eccentric_anomaly) ==
    /\ ret' = Call("mean_anomaly_at_eccentric_anomaly", 0,
                   <<eccentric_anomaly>>,
                   mean_anomaly_at_eccentric_anomaly(orb, eccentric_anomaly))
    /\ UNCHANGED <<bodies, orb, gui>>

\* The events GLUT delivers to the window.  MaxTheta caps the turns of the
\* camera and MaxWheel the wheel operations.
MaxTheta == 1
MaxWheel == 1

MotionFunc(x, y) ==
    /\ ~Lt(QI(MaxTheta), motionFunc(gui, x, y).theta)
    /\ ~Lt(motionFunc(gui, x, y).theta, QI(-MaxTheta))
    /\ gui' = motionFunc(gui, x, y)
    /\ ret' = Call("motionFunc", 0, <<QI(x), QI(y)>>, Return(None))
    /\ UNCHANGED <<bodies, orb>>

PassiveMotionFunc(x, y) ==
    /\ ~Lt(QI(MaxTheta), passiveMotionFunc(gui, x, y).theta)
    /\ ~Lt(passiveMotionFunc(gui, x, y).theta, QI(-MaxTheta))
    /\ gui' = passiveMotionFunc(gui, x, y)
    /\ ret' = Call("passiveMotionFunc", 0, <<QI(x), QI(y)>>, Return(None))
    /\ UNCHANGED <<bodies, orb>>

MouseFunc(button, state, x, y) ==
    /\ Len(mouseFunc(gui, button, state, x, y).zoom) <= MaxWheel
    /\ gui' = mouseFunc(gui, button, state, x, y)
    /\ ret' = Call("mouseFunc", 0, <<QI(button), QI(state), QI(x), QI(y)>>,
                   Return(None))
    /\ UNCHANGED <<bodies, orb>>

\* MaxSteps caps the simulation steps after which an outer iteration may
\* still start; a started iteration may take up to MaxSteps + 5 in all.
MaxSteps == 3

\* main, from the test of the outer loop to the test of the inner loop or
\* back to the outer one: the pending events, the passage of time
MainIterate(elapsed, event) ==
    /\ gui.pc = "while"
    /\ gui.is_running
    /\ gui.rocket < MaxSteps
    /\ LET s1 == glutMainLoopEvent(gui, event)
           acc == FAdd(s1.accumulated_time, FMul(elapsed, s1.timewarp))
       IN  gui' = [s1 EXCEPT !.accumulated_time = acc,
                             !.pc = IF FLt(MissionDt, acc)
                                    THEN "inner" ELSE "while"]
    /\ ret' = Call("glutMainLoopEvent", 0, <<elapsed, Str(<<event>>)>>,
                   Return(None))
    /\ UNCHANGED <<bodies, orb>>

\* one turn of the inner loop
MainStep ==
    /\ gui.pc = "inner"
    /\ FLt(MissionDt, gui.accumulated_time)
    /\ gui.rocket < MaxSteps + 5
    /\ gui' = [gui EXCEPT
                 !.accumulated_time = FSub(@, MissionDt),
                 !.rocket = @ + 1,
                 !.time = QAdd(@, MissionDt)]
    /\ ret' = Call("rocket.simulate", 0, <<gui.time, MissionDt>>, Return(None))
    /\ UNCHANGED <<bodies, orb>>

\* the inner loop is left: the path point and the redisplay
MainUpdate ==
    /\ gui.pc = "inner"
    /\ ~FLt(MissionDt, gui.accumulated_time)
    /\ gui' = [gui EXCEPT !.path = Append(@, QI(gui.rocket)),
                          !.pc = "while"]
    /\ ret' = Call("update", 0, <<>>, Return(None))
    /\ UNCHANGED <<bodies, orb>>

\* the outer loop is left
MainExit ==
    /\ gui.pc = "while"
    /\ ~gui.is_running
    /\ gui' = [gui EXCEPT !.pc = "done"]
    /\ ret' = Call("glutCloseFunc", 0, <<None>>, Return(None))
    /\ UNCHANGED <<bodies, orb>>

---------------------------------------------------------------------------
(* Spec: a loader builds the hierarchy, the driver queries it.             *)

MaxBodies == 3

\* a call's arguments: name, mu, radius, rotational period (0: tidal lock,
\* negative: retrograde), north pole, orbit
Args(name, mu, radius, rot, north_pole, orbit) ==
    [name |-> name, gravitational_parameter |-> mu, radius |-> radius,
     rotational_period |-> rot, north_pole |-> north_pole, orbit |-> orbit]

\* the orbit around primary p: planets of the first body have the long
\* period, moons the short one
OrbitArgs(p) ==
    IF p = 1
    THEN Orbit(p, QI(8), QI(8), 0, 0)
    ELSE Orbit(p, QI(4), QI(4), 1, p % 4)

\* the bodies a configuration describes: a rotating star, which orbits
\* nothing; a tidally locked body, alone or around a body that exists; and
\* a retrograde body with a north pole, which the configuration may leave
\* without its orbit
ConstructorArgs ==
    LET orbits == { OrbitArgs(p) : p \in 1..Len(bodies) }
    IN  { Args("Kerbol", QI(32), QI(2), QI(4), None, None) }
        \cup { Args("Kerbin", QI(1), QI(2), QI(0), None, o) :
                 o \in {None} \cup orbits }
        \cup { Args("Eve", QI(0), QI(1), QI(-4), NorthPole(0, 1), o) :
                 o \in {None} \cup orbits }

Init ==
    /\ bodies = <<>>
    /\ ret = NoCall
    /\ gui = None
    /\ orb = None

Next ==
    \/ /\ Len(bodies) < MaxBodies
       /\ \E a \in ConstructorArgs : Construct(a)
    \/ \E b \in 1..Len(bodies) :
         \/ GlobalPositionAtTime(b, QI(3))
         \/ Gravity(b, QI(1))
         \/ Time2Str(b, Q(-7323, 2))
         \/ Str2Time(b, Str(<<"1", "d", ",", "0", ":", "0", "1", ":", "0", "1",
                             ".", "5">>))
         \/ EscapeVelocityAtDistance(b, QI(8))
         \/ AngularDiameter(b, QI(1))
         \/ ConstellationMinimumSize(b, QI(4))
         \/ ConstellationRadius(b, QI(4), QI(3))

Spec == Init /\ [][Next]_vars

---------------------------------------------------------------------------
(* SpecTime and SpecBody: the queries of one body, on a primary and its  *)
(* satellite, over wider inputs.                                           *)

\* a primary of gravitational parameter 32 and its satellite
System(mu, r, rot, period) ==
    CelestialBody(
        CelestialBody(<<>>, Args("Kerbol", QI(32), r, QI(0), None, None)),
        Args("Kerbin", mu, r, rot, None, Orbit(1, period, QI(8), 0, 0)))

\* durations (s): binary fractions, on which the float arithmetic is exact
Durations ==
    { Q(s * n, 4) :
        s \in {-1, 1}, n \in {0, 1, 40, 239, 14646, 57612} }

\* the fields of a formatted time; -1 is an absent field, and clock counts
\* the parts present of hours:minutes, :seconds and .fraction
Fields ==
    [sign : {"", "+", "-"}, y : {-1, 2}, d : {-1, 3}, clock : 0..3]

\* the string str2time is documented to accept for these fields
Compose(x) ==
    Str((IF x.sign = "" THEN <<>> ELSE <<x.sign>>)
        \o (IF x.y < 0 THEN <<>> ELSE Dec(x.y) \o <<"y", ",">>)
        \o (IF x.d < 0 THEN <<>> ELSE Dec(x.d) \o <<"d", " ">>)
        \o (CASE x.clock = 0 -> <<>>
              [] x.clock = 1 -> <<"1", ":", "0", "7">>
              [] x.clock = 2 -> <<"1", ":", "0", "7", ":", "0", "5">>
              [] x.clock = 3 ->
                   <<"1", ":", "0", "7", ":", "0", "5", ".", "2", "5">>))

InitTime ==
    /\ bodies \in { System(QI(1), QI(2), rot, period) :
                      rot \in {QI(0), QI(7), QI(5000), QI(-100)},
                      period \in {QI(4), QI(7200)} }
    /\ ret = NoCall
    /\ gui = None
    /\ orb = None

NextTime ==
    \E b \in 1..Len(bodies) :
      \/ \E t \in Durations : Time2Str(b, t)
      \/ \E x \in Fields : Str2Time(b, Compose(x))
      \/ \E t \in Durations : DrawHud(b, t)
      \/ /\ ret.op = "time2str"
         /\ ret.raised = ""
         /\ Str2Time(ret.self, ret.val)

SpecTime == InitTime /\ [][NextTime]_vars

InitBody ==
    /\ bodies \in { System(mu, r, QI(0), QI(4)) :
                      mu \in {QI(1), QI(32)}, r \in {QI(0), QI(2), QI(4)} }
    /\ ret = NoCall
    /\ gui = None
    /\ orb = None

NextBody ==
    \E b \in 1..Len(bodies) :
      \/ \E d \in {None, QI(-1), QI(0), QI(1), QI(2), QI(3), QI(4), QI(8)} :
           Gravity(b, d)
      \/ \E r \in {QI(0), QI(4)}, k \in {-1, 0, 1, 2, 3, 4, 6} :
           ConstellationRadius(b, r, QI(k))

SpecBody == InitBody /\ [][NextBody]_vars

---------------------------------------------------------------------------
(* SpecOrbit: one orbit around a body without orbit, and its queries.      *)

Eccentricities == {QI(0), Q(1, 2), Q(1, 3), QI(1), QI(2), QI(3)}
Periapsides == {QI(1), QI(2), QI(4)}
Distances ==
    {QI(-1), QI(0), QI(1), QI(2), QI(3), QI(4), QI(6), QI(8), QI(12), QI(16),
     Inf}

InitOrbit ==
    /\ bodies = CelestialBody(<<>>,
                               Args("Kerbol", QI(32), QI(2), QI(0), None, None))
    /\ ret = NoCall
    /\ gui = None
    /\ orb \in { OrbitAngles(e, q, 1) : e \in Eccentricities, q \in Periapsides }

NextOrbit ==
    \/ \E d \in Distances : TrueAnomalyAtDistance(d)
    \/ EjectionAngle
    \/ TrueAnomalyAtEscape

SpecOrbit == InitOrbit /\ [][NextOrbit]_vars

---------------------------------------------------------------------------
(* SpecBuild: constructions only, over wider arguments.                    *)

\* bodies of gravitational parameter 0 (the default), 1 and 32, still,
\* prograde and retrograde, alone or around a body that exists
BuildArgs ==
    { Args("Mun", mu, QI(2), rot, None, o) :
        mu \in {QI(0), QI(1), QI(32)},
        rot \in {QI(0), QI(3), QI(4), QI(-4)},
        o \in {None} \cup { Orbit(p, QI(4), QI(8), 0, 0) :
                               p \in 1..Len(bodies) } }

InitBuild ==
    /\ bodies = <<>>
    /\ ret = NoCall
    /\ gui = None
    /\ orb = None

NextBuild ==
    /\ Len(bodies) < MaxBodies - 1
    /\ \E a \in BuildArgs : Construct(a)

SpecBuild == InitBuild /\ [][NextBuild]_vars

---------------------------------------------------------------------------
(* SpecClock: the two conversions between time and mean anomaly of one     *)
(* orbit, each also applied to what the other returned.                    *)

Epochs == {QI(0), QI(10)}
EpochAnomalies == {QI(0), PiTimes(Q(1, 2)), PiTimes(QI(-1))}
MeanMotions == {QI(0), PiTimes(Q(1, 4)), PiTimes(Q(-1, 4)), PiTimes(QI(2))}
Times == {QI(-8), QI(0), QI(1), Q(21, 2), QI(18), QI(19)}
MeanAnomalies == {QI(0), PiTimes(QI(1)), PiTimes(Q(5, 2)), PiTimes(QI(-3))}

InitClock ==
    /\ bodies = CelestialBody(<<>>,
                               Args("Kerbol", QI(32), QI(2), QI(0), None, None))
    /\ ret = NoCall
    /\ gui = None
    /\ orb \in { Kepler(Q(1, 2), t0, m0, n) :
                   t0 \in Epochs, m0 \in EpochAnomalies, n \in MeanMotions }

NextClock ==
    \/ \E t \in Times : MeanAnomalyAtTime(t)
    \/ \E m \in MeanAnomalies : TimeAtMeanAnomaly(m)
    \/ /\ ret.op = "mean_anomaly_at_time"
       /\ TimeAtMeanAnomaly(ret.val)
    \/ /\ ret.op = "time_at_mean_anomaly"
       /\ ret.raised = ""
       /\ MeanAnomalyAtTime(ret.val)

SpecClock == InitClock /\ [][NextClock]_vars

---------------------------------------------------------------------------
(* SpecKepler: the eccentric anomaly of a mean anomaly, and back.          *)

\* circular, elliptic (0.3, and 2**-19 below 1), parabolic, hyperbolic
\* (2**-19 above 1, and 2).  3/10 stands for the float nearest to it: of
\* that eccentricity only the regime and the size of M/(1 - e), which is far
\* from the bounds of WithinTolerance, are used.
KeplerEccentricities ==
    {QI(0), Q(3, 10), Q(524287, 524288), QI(1), Q(524289, 524288), QI(2)}

\* mean anomalies: 0, 2**-27, 1, 3, and multiples of pi inside and outside
\* [0, 2 pi)
KeplerAnomalies ==
    {QI(0), Q(1, 134217728), QI(1), QI(3),
     PiTimes(Q(1, 2)), PiTimes(QI(1)), PiTimes(QI(2)), PiTimes(QI(3)),
     PiTimes(Q(-1, 2))}

InitKepler ==
    /\ bodies = CelestialBody(<<>>,
                               Args("Kerbol", QI(32), QI(2), QI(0), None, None))
    /\ ret = NoCall
    /\ gui = None
    /\ orb \in { Kepler(e, QI(0), QI(0), PiTimes(Q(1, 4))) :
                   e \in KeplerEccentricities }

NextKepler ==
    \/ \E m \in KeplerAnomalies : EccentricAnomalyAtMeanAnomaly(m)
    \/ \E x \in KeplerAnomalies : MeanAnomalyAtEccentricAnomaly(x)
    \/ /\ ret.op = "eccentric_anomaly_at_mean_anomaly"
       /\ MeanAnomalyAtEccentricAnomaly(ret.val)

SpecKepler == InitKepler /\ [][NextKepler]_vars

---------------------------------------------------------------------------
(* SpecMouse: a window and the mouse events it receives.                   *)

MouseXs == {0, 2}
MouseYs == {0, 400}
Buttons == {GLUT_LEFT_BUTTON, GLUT_RIGHT_BUTTON, 3, 4}

InitMouse ==
    /\ bodies = <<>>
    /\ ret = NoCall
    /\ orb = None
    /\ gui \in {Window("GUI"), Window("Scene")}

NextMouse ==
    \E x \in MouseXs, y \in MouseYs :
        \/ MotionFunc(x, y)
        \/ PassiveMotionFunc(x, y)
        \/ \E button \in Buttons, state \in {GLUT_DOWN, GLUT_UP} :
              MouseFunc(button, state, x, y)

SpecMouse == InitMouse /\ [][NextMouse]_vars

---------------------------------------------------------------------------
(* SpecMission: the main loop of a mission.                                *)

\* time warps: paused, real time, double, and 1e18, which eighteen presses
\* of the time warp key reach
Timewarps == {QI(0), QI(1), QI(2), Huge(QI(1))}

\* seconds between two turns of the outer loop
Elapsed == {QI(0), Q(1, 64), Q(1, 16)}

InitMission ==
    /\ bodies = <<>>
    /\ ret = NoCall
    /\ orb = None
    /\ gui \in { MissionGUI(w) : w \in Timewarps }

NextMission ==
    \/ \E elapsed \in Elapsed, event \in {"", "x1b", "a", "close"} :
          MainIterate(elapsed, event)
    \/ MainStep
    \/ MainUpdate
    \/ MainExit

SpecMission == InitMission /\ [][NextMission]_vars

---------------------------------------------------------------------------
(* Properties *)

Zero3 == Vec3(QI(0), QI(0), QI(0))
Ids == [i \in 1..Len(bodies) |-> i]
IsPrefix(u, v) == Len(u) <= Len(v) /\ SubSeq(v, 1, Len(u)) = u

\* the bodies constructed with an orbit around P, in construction order
OrbitingInOrder(P) ==
    LET Orbits(i) == bodies[i].orbit # None /\ bodies[i].orbit.primary = P
    IN  SelectSeq(Ids, Orbits)

\* C1: after any sequence of constructions, P.satellites lists, in
\* construction order and each once, exactly the bodies constructed with an
\* orbit around P (so a body without orbit is in no list); a new body starts
\* with an empty list, and a construction only appends to existing lists.
C1_SatellitesAppendOnly ==
    /\ [](\A P \in 1..Len(bodies) : bodies[P].satellites = OrbitingInOrder(P))
    /\ [][/\ Len(bodies') >= Len(bodies)
          /\ \A P \in 1..Len(bodies) :
               IsPrefix(bodies[P].satellites, bodies'[P].satellites)
          /\ Len(bodies') > Len(bodies) =>
               bodies'[Len(bodies')].satellites = <<>>]_vars

\* a primary with two satellites, the earlier one first
C1_Witness ==
    \E P \in 1..Len(bodies) :
        /\ Len(bodies[P].satellites) >= 2
        /\ bodies[P].satellites[1] < bodies[P].satellites[2]

QueryOps ==
    {"global_position_at_time", "gravity", "time2str", "str2time",
     "escape_velocity_at_distance", "angular_diameter",
     "constellation_minimum_size", "constellation_radius"}

\* C2: no query changes state: a step that is a call of one of the eight
\* queries, whether it returns or raises, leaves every attribute of every
\* body as it was.
C2_QueriesChangeNothing ==
    [][ret'.op \in QueryOps => bodies' = bodies]_vars

\* a query that raised, on a hierarchy with satellites
C2_Witness ==
    /\ ret.op \in QueryOps
    /\ ret.raised # ""
    /\ \E P \in 1..Len(bodies) : bodies[P].satellites # <<>>

\* the body b and its ancestors: the closure of {b} under "primary of"
RECURSIVE Closure(_, _)
Closure(S, k) ==
    IF k = 0
    THEN S
    ELSE Closure(S \cup { bodies[x].orbit.primary :
                            x \in { y \in S : bodies[y].orbit # None } }, k - 1)

Lineage(b) == Closure({b}, Len(bodies))

RECURSIVE SumOfPositions(_, _)
SumOfPositions(S, t) ==
    IF S = {}
    THEN Zero3
    ELSE LET x == CHOOSE y \in S : TRUE
         IN  VecAdd(SumOfPositions(S \ {x}, t),
                    IF bodies[x].orbit = None
                    THEN Zero3
                    ELSE position_at_time(bodies[x].orbit, t))

\* C3: global_position_at_time(t) returns the sum of orbit.position_at_time(t)
\* over the body and its ancestors that have an orbit, the zero vector for a
\* body without orbit, and is invoked once on the body and once on each
\* ancestor.
C3_GlobalPositionIsSumOverAncestors ==
    ret.op = "global_position_at_time" =>
        LET b == ret.self
            r == ret.val
        IN  /\ ret.raised = ""
            /\ r.val = SumOfPositions(Lineage(b), ret.args[1])
            /\ bodies[b].orbit = None => r.val = Zero3
            /\ Len(r.calls) = Cardinality(Lineage(b))
            /\ { r.calls[i] : i \in 1..Len(r.calls) } = Lineage(b)

\* the position of a body two levels below the root, away from the origin
C3_Witness ==
    /\ ret.op = "global_position_at_time"
    /\ Len(ret.val.calls) = 3
    /\ ret.val.val # Zero3

\* |x - y| <= e on rationals
Within(x, y, e) ==
    LET diff == QSub(x, y)
    IN  ~QLt(e, IF diff.n < 0 THEN QNeg(diff) ELSE diff)

\* C4: for every body with an orbit and every duration t,
\* str2time(time2str(t)) recovers t (to the half tenth of a second that the
\* one decimal of the seconds field can hold) with its sign; the string
\* starts with '+' or '-'.  Stated on the step that parses the string the
\* step before produced.
C4_RoundTrip ==
    [][(/\ ret.op = "time2str"
        /\ ret.raised = ""
        /\ ret'.op = "str2time"
        /\ ret'.self = ret.self
        /\ ret'.args = <<ret.val>>)
       => /\ ret.val.chars[1] \in {"+", "-"}
          /\ ret'.raised = ""
          /\ Within(ret'.val, ret.args[1], Q(1, 20))
          /\ Sgn(ret'.val.n) \in {0, Sgn(ret.args[1].n)}]_vars

\* hours * 3600 + minutes * 60 + seconds of the clock part Compose writes
ClockSeconds(clock) ==
    CASE clock = 0 -> QI(0)
      [] clock = 1 -> QI(3600 + 7 * 60)
      [] clock = 2 -> QI(3600 + 7 * 60 + 5)
      [] clock = 3 -> Q(4 * (3600 + 7 * 60 + 5) + 1, 4)

\* years * orbit.period + days * rotational_period + hours * 3600 +
\* minutes * 60 + seconds, an absent field counting as 0
FieldsTotal(self, x) ==
    QAdd(QAdd(QMul(QI(IF x.y < 0 THEN 0 ELSE x.y), self.orbit.period),
              QMul(QI(IF x.d < 0 THEN 0 ELSE x.d), self.rotational_period)),
         ClockSeconds(x.clock))

\* C5: str2time of a string made of an optional sign and any subset of the
\* fields, in order, returns sign * (years * orbit.period + days *
\* rotational_period + hours * 3600 + minutes * 60 + seconds), an absent
\* field counting as 0; no field at all gives 0; and the result is negative
\* only when the sign is '-'.
C5_Str2TimeOfFields ==
    (ret.op = "str2time" /\ ret.raised = "") =>
        \A x \in Fields :
            ret.args[1] = Compose(x) =>
                /\ ret.val = IF x.sign = "-"
                             THEN QNeg(FieldsTotal(bodies[ret.self], x))
                             ELSE FieldsTotal(bodies[ret.self], x)
                /\ (x.y < 0 /\ x.d < 0 /\ x.clock = 0) => ret.val = QI(0)
                /\ ret.val.n < 0 => x.sign = "-"

\* C6: gravity(distance) is 0 at distance 0; mu * distance / radius^3, that
\* is (distance / radius) * gravity(radius), for 0 < distance < radius;
\* mu / distance^2 for distance >= radius; gravity() is gravity(radius); and
\* gravity(radius / 2) is half of gravity(radius).
C6_GravityPiecewise ==
    /\ ret.op = "gravity" =>
         LET self == bodies[ret.self]
             mu == self.gravitational_parameter
             r == self.radius
             d == IF ret.args[1] = None THEN r ELSE ret.args[1]
         IN  /\ d = QI(0) => ret.raised = "" /\ ret.val = QI(0)
             /\ (d.n > 0 /\ QLt(d, r)) =>
                  /\ ret.raised = ""
                  /\ ret.val = Q(mu.n * d.n * r.d * r.d * r.d,
                                 mu.d * d.d * r.n * r.n * r.n)
                  /\ ret.val = QMul(QDiv(d, r), gravity(self, r).val)
             /\ (d.n > 0 /\ ~QLt(d, r)) =>
                  /\ ret.raised = ""
                  /\ ret.val = Q(mu.n * d.d * d.d, mu.d * d.n * d.n)
             /\ ret.args[1] = None => ret.val = gravity(self, r).val
    /\ \A b \in 1..Len(bodies) :
         bodies[b].radius.n > 0 =>
           gravity(bodies[b], QDiv(bodies[b].radius, QI(2))).val
             = QDiv(gravity(bodies[b], bodies[b].radius).val, QI(2))

\* gravity inside a body: below the surface, above the centre, not zero
C6_Witness ==
    /\ ret.op = "gravity"
    /\ ret.args[1] # None
    /\ ret.args[1].n > 0
    /\ QLt(ret.args[1], bodies[ret.self].radius)
    /\ ret.val.n > 0

\* C7: constellation_radius(range, size) raises InvalidConstellation for
\* every size < 3, whatever the range and the radius, and returns a pair
\* (min_radius, max_radius) for every size >= 3.
C7_ConstellationSize ==
    ret.op = "constellation_radius" =>
        /\ ret.args[2].n < 3 => ret.raised = "InvalidConstellation"
        /\ ret.args[2].n >= 3 =>
             /\ ret.raised = ""
             /\ DOMAIN ret.val = {"min", "max"}

\* size 0 on a body of radius 0 with range 0: nothing is computed, the
\* size is refused
C7_Witness ==
    /\ ret.op = "constellation_radius"
    /\ ret.args = <<QI(0), QI(0)>>
    /\ bodies[ret.self].radius = QI(0)
    /\ ret.raised = "InvalidConstellation"

\* the three conditions under which true_anomaly_at_distance has no solution
NoSolution(o, distance) ==
    \/ o.eccentricity = QI(0)
    \/ Lt(distance, o.periapsis)
    \/ Lt(QI(0), o.apoapsis) /\ Lt(o.apoapsis, distance)

\* (p / distance - 1) / e, as (p - distance) / (distance * e)
CosineAt(o, distance) ==
    IF distance = Inf
    THEN Q(-o.eccentricity.d, o.eccentricity.n)
    ELSE QDiv(QSub(o.semi_latus_rectum, distance),
              QMul(distance, o.eccentricity))

C9_NoneWhenNoSolution ==
    ret.op = "true_anomaly_at_distance" =>
        /\ NoSolution(orb, ret.args[1]) => ret.val = None
        /\ ~NoSolution(orb, ret.args[1]) => ret.val.f = "acos"

\* C10: construction sets rotational_period to orbit.period when it is given
\* as 0 and there is an orbit, and to the given value otherwise;
\* surface_velocity is +inf exactly when that rotational_period is 0 and
\* 2 * pi * radius / rotational_period otherwise.  So a body with an orbit
\* of non-zero period never has an infinite surface_velocity, and a body
\* without orbit given rotational_period 0 always has.  (Of a construction
\* that raises, only the rotational_period is there to be judged.)
C10_RotationAndSurfaceVelocity ==
    /\ (ret.op = "CelestialBody" /\ ret.self <= Len(bodies)) =>
         LET a == ret.args[1]
             self == bodies[ret.self]
         IN  /\ self.rotational_period =
                  IF a.rotational_period = QI(0) /\ a.orbit # None
                  THEN a.orbit.period
                  ELSE a.rotational_period
             /\ (ret.raised = "" /\ a.rotational_period = QI(0)
                   /\ a.orbit = None) => self.surface_velocity = Inf
    /\ \A b \in 1..Len(bodies) :
         bodies[b].raised = "" =>
           LET rot == bodies[b].rotational_period
               r == bodies[b].radius
           IN  /\ bodies[b].surface_velocity = Inf <=> rot = QI(0)
               /\ rot # QI(0) =>
                    bodies[b].surface_velocity
                      = PiTimes(Q(2 * r.n * rot.d, r.d * rot.n))
               /\ (bodies[b].orbit # None /\ bodies[b].orbit.period # QI(0))
                    => bodies[b].surface_velocity # Inf

\* a tidally locked satellite: given 0, it rotates with its orbit's period
\* and its surface moves at a finite speed
C10_Witness ==
    /\ ret.op = "CelestialBody"
    /\ ret.raised = ""
    /\ ret.args[1].rotational_period = QI(0)
    /\ ret.args[1].orbit # None
    /\ bodies[ret.self].rotational_period = ret.args[1].orbit.period
    /\ bodies[ret.self].surface_velocity.f = "pi*"

\* the bodies whose construction returned
Built == { b \in 1..Len(bodies) : bodies[b].raised = "" }

\* C11: solar_day is 0 for a body without orbit; for a body with an orbit it
\* is +inf exactly when rotational_period (after defaulting) equals
\* orbit.period, and rotational_period * orbit.period / (orbit.period -
\* rotational_period) otherwise; a body constructed with an orbit and
\* rotational_period 0 has solar_day +inf.
C11_SolarDay ==
    /\ \A b \in Built :
         LET rot == bodies[b].rotational_period
             o == bodies[b].orbit
         IN  /\ o = None => bodies[b].solar_day = QI(0)
             /\ o # None =>
                  /\ bodies[b].solar_day = Inf <=> rot = o.period
                  /\ rot # o.period =>
                       bodies[b].solar_day
                         = Q(rot.n * o.period.n,
                             o.period.n * rot.d - rot.n * o.period.d)
    /\ (/\ ret.op = "CelestialBody"
        /\ ret.raised = ""
        /\ ret.args[1].orbit # None
        /\ ret.args[1].rotational_period = QI(0))
       => bodies[ret.self].solar_day = Inf

\* a prograde satellite turning faster than it orbits: 3 * 4 / (4 - 3)
C11_Witness ==
    \E b \in Built :
        /\ bodies[b].orbit # None
        /\ bodies[b].rotational_period = QI(3)
        /\ bodies[b].solar_day = QI(12)

\* x * x * x * x * x on a rational
Fifth(x) == QMul(x, QMul(QMul(x, x), QMul(x, x)))

\* C12: sphere_of_influence is +inf exactly for a body without orbit; with
\* an orbit it is semi_major_axis * (mu_b / mu_p) ** 0.4 (the non-negative
\* s with (s / a)^5 * mu_p^2 = mu_b^2), and no later step changes it.
C12_SphereOfInfluence ==
    /\ [](\A b \in Built :
            LET o == bodies[b].orbit
                soi == bodies[b].sphere_of_influence
                mu_b == bodies[b].gravitational_parameter
            IN  /\ soi = Inf <=> o = None
                /\ o # None =>
                     LET mu_p == bodies[o.primary].gravitational_parameter
                         x == QDiv(soi, o.semi_major_axis)
                     IN  /\ soi.f = "q"
                         /\ soi.n >= 0
                         /\ QMul(Fifth(x), QMul(mu_p, mu_p))
                              = QMul(mu_b, mu_b))
    /\ [][\A b \in 1..Len(bodies) :
            bodies'[b].sphere_of_influence
              = bodies[b].sphere_of_influence]_vars

\* a satellite 32 times lighter than its primary: 8 * (1/32) ** 0.4 = 2
C12_Witness ==
    \E b \in Built :
        /\ bodies[b].orbit # None
        /\ bodies[b].gravitational_parameter = QI(1)
        /\ bodies[bodies[b].orbit.primary].gravitational_parameter = QI(32)
        /\ bodies[b].sphere_of_influence = QI(2)

WithinTolerance(x, M) ==
    CASE x = M -> TRUE
      [] x # M /\ x.f \in {"q", "pi*"} /\ M.f \in {"q", "pi*"}
              /\ (x.f = "pi*" \/ IsZero(x)) /\ (M.f = "pi*" \/ IsZero(M)) -> FALSE
      [] x # M /\ x.f = "image" /\ M.f = "q" /\ x.x.f = "q" /\ x.x.n > 0
              /\ x.x = QDiv(M, IF Lt(x.e, QI(1)) THEN QSub(QI(1), x.e)
                                                 ELSE QSub(x.e, QI(1)))
              /\ ~QLt(Q(1, 1024), x.x) /\ ~QLt(QI(2), x.e) -> TRUE
      [] x # M /\ x.f = "image" /\ M.f = "q" /\ x.x.f = "q" /\ x.x.n > 0
              /\ x.x = QDiv(M, IF Lt(x.e, QI(1)) THEN QSub(QI(1), x.e)
                                                 ELSE QSub(x.e, QI(1)))
              /\ ~QLt(x.x, Q(1, 256)) /\ ~QLt(x.e, Q(1, 2)) -> FALSE

\* C14: in each regime (e < 1, e = 1, e > 1) and for every mean anomaly M,
\* mean_anomaly_at_eccentric_anomaly(eccentric_anomaly_at_mean_anomaly(M))
\* is within 1e-9 of M; for e < 1 it is compared with M reduced modulo 2 pi,
\* the value the elliptic solve works on.
C14_KeplerRoundTrip ==
    [][(/\ ret.op = "eccentric_anomaly_at_mean_anomaly"
        /\ ret'.op = "mean_anomaly_at_eccentric_anomaly"
        /\ ret'.args = <<ret.val>>)
       => WithinTolerance(ret'.val,
                          IF Lt(orb.eccentricity, QI(1))
                          THEN Mod2Pi(ret.args[1])
                          ELSE ret.args[1])]_vars

\* C15: ejection_angle() returns +infinity for every eccentricity < 1 and
\* acos(-1/eccentricity) for every eccentricity >= 1, the parabola included;
\* it does not raise, and orbits of the same eccentricity that differ in
\* periapsis get the same answer.
C15_EjectionAngle ==
    ret.op = "ejection_angle" =>
        /\ ret.raised = ""
        /\ Lt(orb.eccentricity, QI(1)) => ret.val = Inf
        /\ ~Lt(orb.eccentricity, QI(1)) =>
               ret.val = Term("acos", QDiv(QI(-1), orb.eccentricity))
        /\ \A q \in Periapsides :
               ret.val = ejection_angle(OrbitAngles(orb.eccentricity, q,
                                                    orb.primary)).val

\* the parabola has been asked for its ejection angle: acos(-1)
C15_Witness ==
    /\ ret.op = "ejection_angle"
    /\ orb.eccentricity = QI(1)
    /\ ret.val = Term("acos", QI(-1))

C16_FailedConstructionStaysRegistered ==
    /\ [](\A b \in 1..Len(bodies) :
            (bodies[b].raised # "" /\ bodies[b].orbit # None) =>
                \E i \in 1..Len(bodies[bodies[b].orbit.primary].satellites) :
                    bodies[bodies[b].orbit.primary].satellites[i] = b)
    /\ [][(/\ ret'.op = "CelestialBody"
            /\ ret'.raised # ""
            /\ ret'.args[1].orbit # None)
           => LET P == ret'.args[1].orbit.primary
              IN  /\ bodies' # bodies
                  /\ ret'.self = Len(bodies) + 1
                  /\ bodies'[ret'.self].raised = ret'.raised
                  /\ bodies'[P].satellites
                       = Append(bodies[P].satellites, ret'.self)]_vars

\* a construction around a primary of gravitational parameter 0 raised
\* ZeroDivisionError and the body is the primary's only satellite
C16_Witness ==
    /\ ret.op = "CelestialBody"
    /\ ret.raised = "ZeroDivisionError"
    /\ ret.args[1].orbit # None
    /\ IsZero(bodies[ret.args[1].orbit.primary].gravitational_parameter)
    /\ bodies[ret.args[1].orbit.primary].satellites = <<ret.self>>
    /\ bodies[ret.self].sphere_of_influence = Unset

\* C17: on a body without orbit time2str and str2time raise for every
\* input, str2time also on a string without years field, and return no
\* value; draw_hud formats the time with the time2str of the rocket's
\* primary, so it raises whenever that call does.
C17_NoOrbitNoTime ==
    /\ (ret.op \in {"time2str", "str2time"}
          /\ bodies[ret.self].orbit = None) =>
         (ret.raised # "" /\ ret.val = None)
    /\ ret.op = "draw_hud" =>
         /\ ret.raised = time2str(bodies[ret.self], ret.args[1]).raised
         /\ bodies[ret.self].orbit = None => ret.raised # ""

\* str2time has raised on the body without orbit for "1:07:05", which has
\* neither years nor days
C17_Witness ==
    /\ ret.op = "str2time"
    /\ bodies[ret.self].orbit = None
    /\ ret.args[1] = Str(<<"1", ":", "0", "7", ":", "0", "5">>)
    /\ ret.raised = "AttributeError"

\* the step is the delivery of a motion event, active or passive
IsMotion(r) == r.op \in {"motionFunc", "passiveMotionFunc"}

\* the step is a mouseFunc event of the right button in the given state
IsRight(r, state) ==
    /\ r.op = "mouseFunc"
    /\ r.args[1] = QI(GLUT_RIGHT_BUTTON)
    /\ r.args[2] = QI(state)

\* C19: after any sequence of mouse button and motion events phi is within
\* [-180, 0]; theta and phi change only on a motion event received while
\* drag_active is true; drag_active is true exactly between a press of the
\* right button and its next release; after every press of the right button
\* and every motion event mouse_x and mouse_y are the coordinates of that
\* event, so the first motion after the press turns the camera by a quarter
\* of the displacement since the press.
C19_CameraDrag ==
    /\ [](~Lt(gui.phi, QI(-180)) /\ ~Lt(QI(0), gui.phi))
    /\ [][/\ (gui'.theta # gui.theta \/ gui'.phi # gui.phi) =>
               (IsMotion(ret') /\ gui.drag_active)
          /\ gui'.drag_active =
               (IF IsRight(ret', GLUT_DOWN) THEN TRUE
                ELSE IF IsRight(ret', GLUT_UP) THEN FALSE
                ELSE gui.drag_active)
          /\ (IsMotion(ret') \/ IsRight(ret', GLUT_DOWN)) =>
               /\ QI(gui'.mouse_x) = ret'.args[Len(ret'.args) - 1]
               /\ QI(gui'.mouse_y) = ret'.args[Len(ret'.args)]
          /\ (IsRight(ret, GLUT_DOWN) /\ IsMotion(ret')) =>
               /\ gui'.theta
                    = QAdd(gui.theta,
                           Q(ret'.args[1].n - ret.args[3].n, 4))
               /\ gui'.phi
                    = ClampPhi(QAdd(gui.phi,
                                    Q(ret'.args[2].n - ret.args[4].n, 4)))
         ]_vars

\* a drag downwards by 400 pixels from the default camera: phi would be
\* -90 + 100 and is held at 0, and theta has turned by half a degree
C19_Witness ==
    /\ IsMotion(ret)
    /\ gui.drag_active
    /\ gui.phi = QI(0)
    /\ gui.theta = Q(1, 2)
    /\ gui.mouse_y = 400

\* C20: in MissionGUI.main, for non-negative elapsed time and timewarp,
\* every turn of the outer loop ends with 0 <= accumulated_time <= dt, dt
\* being 2**-5; the inner loop terminates, each of its steps taking dt off
\* accumulated_time, calling rocket.simulate(self.time, dt) with the time
\* before the increment and then advancing self.time by dt, so self.time is
\* dt times the number of simulate calls; the path gets one point per turn
\* of the outer loop in which a step ran and none otherwise; and the loop
\* is left after the turn in which is_running became false.
C20_MissionLoop ==
    /\ [](gui.pc = "while" =>
            (/\ ~FLt(gui.accumulated_time, QI(0))
             /\ ~FLt(MissionDt, gui.accumulated_time)))
    /\ [](gui.time = QMul(MissionDt, QI(gui.rocket)))
    /\ [](gui.pc = "done" => ~gui.is_running)
    /\ [][ret'.op = "rocket.simulate" =>
            (/\ ret'.args = <<gui.time, MissionDt>>
             /\ gui'.time = QAdd(gui.time, MissionDt)
             /\ FLt(gui'.accumulated_time, gui.accumulated_time))]_vars
    /\ [][IF gui.pc = "inner" /\ gui'.pc = "while"
          THEN /\ gui'.path = Append(gui.path, QI(gui.rocket))
               /\ gui.rocket > (IF gui.path = <<>> THEN 0
                                 ELSE gui.path[Len(gui.path)].n)
          ELSE gui'.path = gui.path]_vars
    /\ [][((gui.pc = "while" /\ ~gui.is_running) => gui'.pc = "done")
          /\ ((gui.is_running /\ ~gui'.is_running) =>
                ret'.op = "glutMainLoopEvent")]_vars

====
